---- MODULE Spec2Model ----
(***************************************************************************)
(* Model of monitor-dashboard.py: the three read handlers of               *)
(* DashboardHandler (serve_tasks_json, serve_logs, serve_status), the      *)
(* external pipeline process that owns tasks.json and pipeline.log, and    *)
(* the browser client's getTaskStatus, updateStats and fetchLogs.          *)
(*                                                                         *)
(* File contents are sequences of tokens.  tasks.json is a sequence of     *)
(* string tokens ("{", a document body, "}"); pipeline.log is a sequence   *)
(* of integers where NL is the newline and a positive integer is the text  *)
(* of one log line.                                                        *)
(***************************************************************************)
EXTENDS Integers, Sequences, FiniteSets, TLC

VARIABLES
    \* ---- tasks.json and its writer (external pipeline process)
    tasksExists,    \* os.path.exists(TASKS_FILE)
    tasksBytes,     \* content of the file at TASKS_FILE (<<>> when absent)
    wpc,            \* writer of tasks.json: "idle" | "writing"
    wbuf,           \* tokens the writer has still to write
    \* ---- serve_tasks_json
    tpc,            \* "idle" | "open" | "load"
    tfd,            \* handle opened by the handler: "closed" | "live" | "orphan"
    tOrphan,        \* content of the unlinked inode the handle still reads
    tasksResp,      \* response of the current / most recent GET /api/tasks
    tPrevResp,      \* response of the call before that
    tClean,         \* no external operation on tasks.json since the call began
    tBoth,          \* nor since the call before it began
    \* ---- pipeline.log and its writer
    logExists,
    logBytes,
    nextLine,       \* text of the next line the pipeline will log
    lwpc,           \* writer of the log: "idle" | "midline"
    \* ---- serve_logs
    lpc,            \* "idle" | "open" | "read"
    lfd,
    lOrphan,
    logsResp,
    lPrevResp,
    lAtRead,        \* content the most recent call read (<<>> if it read none)
    lAtPrevRead,    \* the same for the call before it
    lClean,         \* since the most recent read the log only grew by whole lines
    lBoth,          \* the same between the two most recent reads
    \* ---- serve_status
    statusResp,
    \* ---- browser client
    cpc,            \* fetchLogs: "idle" | "waiting"
    logLines,       \* let logLines = []
    logsContainer,  \* children of the #logs element (their textContent)
    tasks,          \* data.master.tasks handed to renderTasks / updateStats
    rendered,       \* status badge rendered for each task
    stats,          \* the four counters updateStats writes
    \* ---- bookkeeping
    ops             \* number of steps the external process has taken

vars == << tasksExists, tasksBytes, wpc, wbuf, tpc, tfd, tOrphan, tasksResp,
           tPrevResp, tClean, tBoth, logExists, logBytes, nextLine, lwpc, lpc,
           lfd, lOrphan, logsResp, lPrevResp, lAtRead, lAtPrevRead, lClean,
           lBoth, statusResp, cpc, logLines, logsContainer, tasks, rendered,
           stats, ops >>

tasksFileVars == << tasksExists, tasksBytes >>
tasksWriterVars == << wpc, wbuf >>
tasksHandlerVars == << tpc, tfd, tOrphan, tasksResp, tPrevResp, tClean, tBoth >>
logFileVars == << logExists, logBytes >>
logWriterVars == << nextLine, lwpc >>
logsHandlerVars == << lpc, lfd, lOrphan, logsResp, lPrevResp, lAtRead,
                      lAtPrevRead, lClean, lBoth >>
statusVars == << statusResp >>
clientLogVars == << cpc, logLines, logsContainer >>
clientTaskVars == << tasks, rendered, stats >>

(***************************************************************************)
(* Bounds of the model.                                                    *)
(***************************************************************************)
MaxTaskOps == 5
MaxLogOps == 4
MaxClientOps == 3
MaxFrameOps == 2
InitLogLines == 150
MaxTasks == 1
MaxSubtasks == 3

(***************************************************************************)
(* tasks.json: documents, json.dumps and json.load.                        *)
(***************************************************************************)
\* "E" is {"master": {"tasks": []}}; "A" and "B" are documents with tasks.
Docs == {"E", "A", "B"}
EmptyDoc == "E"
ParseError == "JSONDecodeError"

\* json.dumps(doc): the text of a document.
Dumps(doc) == << "{", doc, "}" >>

\* json.load(f): the document whose text the bytes are, or a JSONDecodeError
\* (an empty file and every strict prefix of a document are no JSON).
JsonLoad(bytes) ==
    IF Len(bytes) = 3 /\ bytes[1] = "{" /\ bytes[3] = "}" /\ bytes[2] \in Docs
    THEN bytes[2]
    ELSE ParseError

NoResp == [code |-> 0, body |-> << >>]
\* send_response(200) ... wfile.write(body)
Ok(body) == [code |-> 200, body |-> body]
\* send_error(500, ...): the exception was caught by the handler.
Err500(body) == [code |-> 500, body |-> body]

(***************************************************************************)
(* The external pipeline process on tasks.json.  Every step it takes       *)
(* counts against the budget of the specification that uses it.            *)
(***************************************************************************)
\* What a change of the file at TASKS_FILE does to the handler's bookkeeping:
\* a handle that is open keeps reading the inode it was opened on.
TasksUnlinked ==
    /\ tfd' = IF tfd = "live" THEN "orphan" ELSE tfd
    /\ tOrphan' = IF tfd = "live" THEN tasksBytes ELSE tOrphan
    /\ tClean' = FALSE
    /\ tBoth' = FALSE
    /\ UNCHANGED << tpc, tasksResp, tPrevResp >>

TasksTouched ==
    /\ tClean' = FALSE
    /\ tBoth' = FALSE
    /\ UNCHANGED << tpc, tfd, tOrphan, tasksResp, tPrevResp >>

\* open(TASKS_FILE, 'w'): creates the file or truncates it in place.
ExtBeginWrite(budget) ==
    /\ ops < budget
    /\ wpc = "idle"
    /\ \E d \in Docs : wbuf' = Dumps(d)
    /\ wpc' = "writing"
    /\ tasksExists' = TRUE
    /\ tasksBytes' = << >>
    /\ TasksTouched
    /\ ops' = ops + 1
    /\ UNCHANGED << logFileVars, logWriterVars, logsHandlerVars, statusVars,
                    clientLogVars, clientTaskVars >>

\* One write of the next piece of the document; the last one ends the write.
ExtWrite(budget) ==
    /\ ops < budget
    /\ wpc = "writing"
    /\ tasksBytes' = Append(tasksBytes, Head(wbuf))
    /\ wbuf' = Tail(wbuf)
    /\ wpc' = IF Tail(wbuf) = << >> THEN "idle" ELSE "writing"
    /\ TasksTouched
    /\ ops' = ops + 1
    /\ UNCHANGED << tasksExists, logFileVars, logWriterVars, logsHandlerVars,
                    statusVars, clientLogVars, clientTaskVars >>

\* The writer stops before the document is complete (it crashed, or was
\* killed): the file keeps the malformed content.
ExtAbort(budget) ==
    /\ ops < budget
    /\ wpc = "writing"
    /\ wpc' = "idle"
    /\ wbuf' = << >>
    /\ TasksTouched
    /\ ops' = ops + 1
    /\ UNCHANGED << tasksFileVars, logFileVars, logWriterVars, logsHandlerVars,
                    statusVars, clientLogVars, clientTaskVars >>

\* os.remove(TASKS_FILE)
ExtDeleteTasks(budget) ==
    /\ ops < budget
    /\ wpc = "idle"
    /\ tasksExists
    /\ tasksExists' = FALSE
    /\ tasksBytes' = << >>
    /\ TasksUnlinked
    /\ ops' = ops + 1
    /\ UNCHANGED << tasksWriterVars, logFileVars, logWriterVars,
                    logsHandlerVars, statusVars, clientLogVars, clientTaskVars >>

\* os.replace(tmp, TASKS_FILE): a complete document put in place atomically.
ExtReplaceTasks(budget) ==
    /\ ops < budget
    /\ wpc = "idle"
    /\ \E d \in Docs : tasksBytes' = Dumps(d)
    /\ tasksExists' = TRUE
    /\ TasksUnlinked
    /\ ops' = ops + 1
    /\ UNCHANGED << tasksWriterVars, logFileVars, logWriterVars,
                    logsHandlerVars, statusVars, clientLogVars, clientTaskVars >>

\* HTTPServer serves one request at a time: a handler starts only when no
\* other is running.
ServerFree == tpc = "idle" /\ lpc = "idle"

(***************************************************************************)
(* serve_tasks_json, in the three steps the external process can           *)
(* interleave with: os.path.exists, open, json.load and the response.      *)
(***************************************************************************)
\* The else branch: tasks_data = {"master": {"tasks": []}}
TasksAbsentResponse == Ok(Dumps(EmptyDoc))

\* open() raised: except Exception -> send_error(500, ...)
TasksOpenFailed == Err500(<< "FileNotFoundError" >>)

\* Mutant: the except branch answers with the empty structure instead of 500.
TasksLoadResponse_Swallow(bytes) ==
    IF JsonLoad(bytes) = ParseError
    THEN Ok(Dumps(EmptyDoc))
    ELSE Ok(Dumps(JsonLoad(bytes)))

\* Mutant: a failure is remembered and served again to the next call.
TasksLoadResponse_Sticky(bytes) ==
    IF tPrevResp.code = 500 \/ JsonLoad(bytes) = ParseError
    THEN Err500(<< ParseError >>)
    ELSE Ok(Dumps(JsonLoad(bytes)))

\* json.load(f) then json.dumps(tasks_data), or the except branch.
TasksLoadResponse(bytes) ==
    IF JsonLoad(bytes) = ParseError
    THEN Err500(<< ParseError >>)
    ELSE Ok(Dumps(JsonLoad(bytes)))

\* if os.path.exists(TASKS_FILE): ... else: the empty structure
TasksCheck ==
    /\ ServerFree
    /\ tPrevResp' = tasksResp
    /\ tBoth' = (tClean /\ tasksResp # NoResp)
    /\ tClean' = TRUE
    /\ IF tasksExists
       THEN /\ tpc' = "open"
            /\ tasksResp' = NoResp
       ELSE /\ tpc' = "idle"
            /\ tasksResp' = TasksAbsentResponse
    /\ UNCHANGED << tfd, tOrphan, tasksFileVars, tasksWriterVars, logFileVars,
                    logWriterVars, logsHandlerVars, statusVars, clientLogVars,
                    clientTaskVars, ops >>

\* Mutant: the file is opened with mode 'w', which truncates it.
TasksOpen_Truncating ==
    /\ tpc = "open"
    /\ IF tasksExists
       THEN /\ tpc' = "load"
            /\ tfd' = "live"
            /\ tasksResp' = tasksResp
            /\ tasksBytes' = << >>
       ELSE /\ tpc' = "idle"
            /\ tfd' = "closed"
            /\ tasksResp' = TasksOpenFailed
            /\ tasksBytes' = tasksBytes
    /\ UNCHANGED << tOrphan, tPrevResp, tClean, tBoth, tasksExists,
                    tasksWriterVars, logFileVars, logWriterVars,
                    logsHandlerVars, statusVars, clientLogVars, clientTaskVars,
                    ops >>

\* with open(TASKS_FILE, 'r') as f:
TasksOpen ==
    /\ tpc = "open"
    /\ IF tasksExists
       THEN /\ tpc' = "load"
            /\ tfd' = "live"
            /\ tasksResp' = tasksResp
       ELSE /\ tpc' = "idle"
            /\ tfd' = "closed"
            /\ tasksResp' = TasksOpenFailed
    /\ UNCHANGED << tOrphan, tPrevResp, tClean, tBoth, tasksFileVars,
                    tasksWriterVars, logFileVars, logWriterVars,
                    logsHandlerVars, statusVars, clientLogVars, clientTaskVars,
                    ops >>

\* tasks_data = json.load(f); the 200 response, or the 500 of the except.
TasksLoad ==
    /\ tpc = "load"
    /\ tasksResp' = TasksLoadResponse(IF tfd = "live" THEN tasksBytes ELSE tOrphan)
    /\ tpc' = "idle"
    /\ tfd' = "closed"
    /\ tOrphan' = << >>
    /\ UNCHANGED << tPrevResp, tClean, tBoth, tasksFileVars, tasksWriterVars,
                    logFileVars, logWriterVars, logsHandlerVars, statusVars,
                    clientLogVars, clientTaskVars, ops >>

(***************************************************************************)
(* The client's task view: getTaskStatus and updateStats.                  *)
(***************************************************************************)
\* A field that is absent from the JSON object (undefined), or null.
Undefined == "undefined"
StatusValues == {"pending", "in-progress", "complete"}

\* task.subtasks: absent, or a list (possibly empty).
NoSubtasks == [has |-> FALSE, list |-> << >>]
Subtasks(list) == [has |-> TRUE, list |-> list]

\* Mutant: the length check is missing, so every() over an empty list decides.
getTaskStatus_NoEmptyCheck(task) ==
    IF ~task.subtasks.has
    THEN IF task.status = Undefined THEN "pending" ELSE task.status
    ELSE LET sts == task.subtasks.list
             allComplete == \A i \in 1..Len(sts) : sts[i].status = "complete"
             anyInProgress == \E i \in 1..Len(sts) : sts[i].status = "in-progress"
         IN  IF allComplete THEN "complete"
             ELSE IF anyInProgress THEN "in-progress"
             ELSE "pending"

getTaskStatus(task) ==
    IF ~task.subtasks.has \/ Len(task.subtasks.list) = 0
    THEN IF task.status = Undefined THEN "pending" ELSE task.status
    ELSE LET sts == task.subtasks.list
             allComplete == \A i \in 1..Len(sts) : sts[i].status = "complete"
             anyInProgress == \E i \in 1..Len(sts) : sts[i].status = "in-progress"
         IN  IF allComplete THEN "complete"
             ELSE IF anyInProgress THEN "in-progress"
             ELSE "pending"

\* Mutant: Math.floor in place of Math.round.
MathRound_Floor(num, den) == num \div den

\* Math.round(x) for x = num / den >= 0: floor(x + 1/2).
MathRound(num, den) == (2 * num + den) \div (2 * den)

\* task.subtasks?.length || 0
SubtaskCount(task) == IF task.subtasks.has THEN Len(task.subtasks.list) ELSE 0

\* task.subtasks.filter(st => st.status === 'complete').length, if (task.subtasks)
CompletedCount(task) ==
    IF task.subtasks.has
    THEN Cardinality({i \in 1..Len(task.subtasks.list) :
                         task.subtasks.list[i].status = "complete"})
    ELSE 0

\* tasks.reduce((sum, task) => sum + (task.subtasks?.length || 0), 0)
RECURSIVE TotalSubtasks(_, _)
TotalSubtasks(ts, sum) ==
    IF ts = << >> THEN sum
    ELSE TotalSubtasks(Tail(ts), sum + SubtaskCount(Head(ts)))

\* tasks.forEach(task => { completedSubtasks += ... })
RECURSIVE CompletedSubtasks(_, _)
CompletedSubtasks(ts, sum) ==
    IF ts = << >> THEN sum
    ELSE CompletedSubtasks(Tail(ts), sum + CompletedCount(Head(ts)))

updateStats(ts) ==
    LET totalTasks == Len(ts)
        totalSubtasks == TotalSubtasks(ts, 0)
        completedSubtasks == CompletedSubtasks(ts, 0)
        progress == IF totalSubtasks > 0
                    THEN MathRound(completedSubtasks * 100, totalSubtasks)
                    ELSE 0
    IN  [totalTasks |-> totalTasks, totalSubtasks |-> totalSubtasks,
         completedSubtasks |-> completedSubtasks, progress |-> progress]

NoStats == [totalTasks |-> 0 - 1, totalSubtasks |-> 0 - 1,
            completedSubtasks |-> 0 - 1, progress |-> 0 - 1]

\* fetchTasks, once the document has arrived: renderTasks(data.master.tasks)
\* then updateStats(data.master.tasks).
FetchTasks ==
    /\ stats = NoStats
    /\ rendered' = [i \in 1..Len(tasks) |-> getTaskStatus(tasks[i])]
    /\ stats' = updateStats(tasks)
    /\ UNCHANGED << tasks, tasksFileVars, tasksWriterVars, tasksHandlerVars,
                    logFileVars, logWriterVars, logsHandlerVars, statusVars,
                    clientLogVars, ops >>

\* The task lists the client is given: at most MaxTasks tasks of at most
\* MaxSubtasks subtasks each.
SeqsUpTo(S, n) == UNION {[1..k -> S] : k \in 0..n}
SubtaskSet == [status : StatusValues \cup {Undefined}]
TaskSet ==
    [status : StatusValues \cup {Undefined},
     subtasks : {NoSubtasks} \cup
                {Subtasks(l) : l \in SeqsUpTo(SubtaskSet, MaxSubtasks)}]
TaskLists(k) == [1..k -> TaskSet]

(***************************************************************************)
(* pipeline.log: text as a sequence of tokens.                             *)
(***************************************************************************)
\* '\n'
NL == 0
\* "No logs available yet." (the text of the placeholder, without its '\n')
NoLogsText == -1
\* The HTML error page send_error writes, taken as one line of text.
ErrorPage == -2
\* lines[-100:]
LogWindow == 100
\* while (logsContainer.children.length > 1000)
DisplayCap == 1000

\* The sizes of the bursts in which the pipeline appends whole lines.
AppendSizes == {1, 5, 100}

\* The sequences below are taken apart by halving, so that the depth of an
\* evaluation grows with the logarithm of the length of the text.

\* Index of the first '\n' of bytes at or after i, or Len(bytes) + 1.
RECURSIVE FindNL(_, _)
FindNL(bytes, i) ==
    IF i > Len(bytes) THEN i
    ELSE IF bytes[i] = NL THEN i
    ELSE FindNL(bytes, i + 1)

\* Index of the last '\n' of bytes at or before i and at or after lo, or lo - 1.
RECURSIVE FindNLBack(_, _, _)
FindNLBack(bytes, i, lo) ==
    IF i < lo THEN lo - 1
    ELSE IF bytes[i] = NL THEN i
    ELSE FindNLBack(bytes, i - 1, lo)

\* The lines of bytes[lo..hi], where lo starts a line and hi ends one.
RECURSIVE ReadLinesIn(_, _, _)
ReadLinesIn(bytes, lo, hi) ==
    IF lo > hi THEN << >>
    ELSE LET mid == (lo + hi) \div 2
             e == FindNL(bytes, mid)
             p == FindNLBack(bytes, mid - 1, lo)
         IN  IF e < hi
             THEN ReadLinesIn(bytes, lo, e) \o ReadLinesIn(bytes, e + 1, hi)
             ELSE IF p >= lo
             THEN Append(ReadLinesIn(bytes, lo, p), SubSeq(bytes, p + 1, hi))
             ELSE << SubSeq(bytes, lo, hi) >>

\* f.readlines(): the lines of the text, each with its '\n' kept; the last
\* one has none when the text does not end in '\n'.
ReadLines(bytes) == ReadLinesIn(bytes, 1, Len(bytes))

\* Mutant: lines[:n], the first n lines instead of the last.
LastLines_Head(lines, n) ==
    IF Len(lines) <= n THEN lines ELSE SubSeq(lines, 1, n)

\* lines[-n:]
LastLines(lines, n) ==
    IF Len(lines) <= n THEN lines
    ELSE SubSeq(lines, Len(lines) - n + 1, Len(lines))

\* seqs[lo] \o ... \o seqs[hi]
RECURSIVE Concat(_, _, _)
Concat(seqs, lo, hi) ==
    IF lo > hi THEN << >>
    ELSE IF lo = hi THEN seqs[lo]
    ELSE LET mid == (lo + hi) \div 2
         IN  Concat(seqs, lo, mid) \o Concat(seqs, mid + 1, hi)

\* ''.join(lines)
Join(lines) == Concat(lines, 1, Len(lines))

\* text.split('\n'): the pieces between the newlines, the piece after the
\* last newline included (it is empty when the text ends in '\n').
Split(text) ==
    LET ls == ReadLines(text)
        strip(l) == IF l[Len(l)] = NL THEN SubSeq(l, 1, Len(l) - 1) ELSE l
        pieces == [i \in 1..Len(ls) |-> strip(ls[i])]
    IN  IF text = << >> \/ text[Len(text)] = NL
        THEN Append(pieces, << >>)
        ELSE pieces

\* .filter(line => line.trim()): the pieces that are not blank.
FilterNonBlank(pieces) ==
    Concat([i \in 1..Len(pieces) |->
               IF pieces[i] = << >> THEN << >> ELSE << pieces[i] >>],
           1, Len(pieces))

\* The text of the k whole lines first, first + 1, ...
LinesText(first, k) ==
    [i \in 1..(2 * k) |-> IF i % 2 = 1 THEN first + (i - 1) \div 2 ELSE NL]

(***************************************************************************)
(* The external pipeline process on pipeline.log.                          *)
(***************************************************************************)
LogGrown ==
    UNCHANGED << lpc, lfd, lOrphan, logsResp, lPrevResp, lAtRead, lAtPrevRead,
                 lClean, lBoth >>

LogDisturbed ==
    /\ lClean' = FALSE
    /\ UNCHANGED << lpc, lfd, lOrphan, logsResp, lPrevResp, lAtRead,
                    lAtPrevRead, lBoth >>

\* open(LOG_FILE, 'a') and one write of k newline-terminated lines.
ExtAppend(budget) ==
    /\ ops < budget
    /\ lwpc = "idle"
    /\ \E k \in AppendSizes :
          /\ logBytes' = logBytes \o LinesText(nextLine, k)
          /\ nextLine' = nextLine + k
    /\ logExists' = TRUE
    /\ lwpc' = "idle"
    /\ LogGrown
    /\ ops' = ops + 1
    /\ UNCHANGED << tasksFileVars, tasksWriterVars, tasksHandlerVars,
                    statusVars, clientLogVars, clientTaskVars >>

\* A line written in two writes: its text now ...
ExtAppendPartial(budget) ==
    /\ ops < budget
    /\ lwpc = "idle"
    /\ logBytes' = Append(logBytes, nextLine)
    /\ logExists' = TRUE
    /\ lwpc' = "midline"
    /\ nextLine' = nextLine
    /\ LogDisturbed
    /\ ops' = ops + 1
    /\ UNCHANGED << tasksFileVars, tasksWriterVars, tasksHandlerVars,
                    statusVars, clientLogVars, clientTaskVars >>

\* ... and its '\n' later.
ExtFinishLine(budget) ==
    /\ ops < budget
    /\ lwpc = "midline"
    /\ logBytes' = Append(logBytes, NL)
    /\ lwpc' = "idle"
    /\ nextLine' = nextLine + 1
    /\ LogDisturbed
    /\ ops' = ops + 1
    /\ UNCHANGED << logExists, tasksFileVars, tasksWriterVars,
                    tasksHandlerVars, statusVars, clientLogVars, clientTaskVars >>

\* os.remove(LOG_FILE)
ExtDeleteLog(budget) ==
    /\ ops < budget
    /\ lwpc = "idle"
    /\ logExists
    /\ logExists' = FALSE
    /\ logBytes' = << >>
    /\ lfd' = IF lfd = "live" THEN "orphan" ELSE lfd
    /\ lOrphan' = IF lfd = "live" THEN logBytes ELSE lOrphan
    /\ lClean' = FALSE
    /\ ops' = ops + 1
    /\ UNCHANGED << lpc, logsResp, lPrevResp, lAtRead, lAtPrevRead, lBoth,
                    logWriterVars, tasksFileVars, tasksWriterVars,
                    tasksHandlerVars, statusVars, clientLogVars, clientTaskVars >>

(***************************************************************************)
(* serve_logs, in the three steps the external process can interleave      *)
(* with: os.path.exists, open, readlines and the response.                 *)
(***************************************************************************)
\* last_lines = "No logs available yet.\n"
LogsAbsentResponse == Ok(<< NoLogsText, NL >>)

\* open() raised: except Exception -> send_error(500, ...)
LogsOpenFailed == Err500(<< ErrorPage, NL >>)

\* Mutant: the window of the call before is served again while there is one.
LogsReadResponse_Cached(bytes) ==
    IF lPrevResp.code = 200 /\ lPrevResp # LogsAbsentResponse
    THEN lPrevResp
    ELSE Ok(Join(LastLines(ReadLines(bytes), LogWindow)))

\* lines = f.readlines(); last_lines = ''.join(lines[-100:])
LogsReadResponse(bytes) == Ok(Join(LastLines(ReadLines(bytes), LogWindow)))

\* What a call that ends without reading the file records.
LogsNoRead ==
    /\ lAtRead' = << >>
    /\ lClean' = FALSE
    /\ lBoth' = FALSE

\* if os.path.exists(LOG_FILE): ... else: the placeholder
LogsCheckStep ==
    /\ ServerFree
    /\ lPrevResp' = logsResp
    /\ lAtPrevRead' = lAtRead
    /\ IF logExists
       THEN /\ lpc' = "open"
            /\ logsResp' = NoResp
            /\ UNCHANGED << lAtRead, lClean, lBoth >>
       ELSE /\ lpc' = "idle"
            /\ logsResp' = LogsAbsentResponse
            /\ LogsNoRead
    /\ UNCHANGED << lfd, lOrphan, logFileVars, logWriterVars, tasksFileVars,
                    tasksWriterVars, tasksHandlerVars, statusVars,
                    clientTaskVars, ops >>

LogsCheck == LogsCheckStep /\ UNCHANGED clientLogVars

\* with open(LOG_FILE, 'r') as f:
LogsOpen ==
    /\ lpc = "open"
    /\ IF logExists
       THEN /\ lpc' = "read"
            /\ lfd' = "live"
            /\ UNCHANGED << logsResp, lAtRead, lClean, lBoth >>
       ELSE /\ lpc' = "idle"
            /\ lfd' = "closed"
            /\ logsResp' = LogsOpenFailed
            /\ LogsNoRead
    /\ UNCHANGED << lOrphan, lPrevResp, lAtPrevRead, logFileVars,
                    logWriterVars, tasksFileVars, tasksWriterVars,
                    tasksHandlerVars, statusVars, clientLogVars,
                    clientTaskVars, ops >>

\* f.readlines(), the join and the 200 response.
LogsRead ==
    /\ lpc = "read"
    /\ LET bytes == IF lfd = "live" THEN logBytes ELSE lOrphan
       IN  /\ logsResp' = LogsReadResponse(bytes)
           /\ lAtRead' = << bytes >>
    /\ lBoth' = (lClean /\ lfd = "live" /\ lwpc = "idle")
    /\ lClean' = (lfd = "live" /\ lwpc = "idle")
    /\ lpc' = "idle"
    /\ lfd' = "closed"
    /\ lOrphan' = << >>
    /\ UNCHANGED << lPrevResp, lAtPrevRead, logFileVars, logWriterVars,
                    tasksFileVars, tasksWriterVars, tasksHandlerVars,
                    statusVars, clientLogVars, clientTaskVars, ops >>

(***************************************************************************)
(* serve_status                                                            *)
(***************************************************************************)
NoStatus == [tasks_file_exists |-> FALSE, log_file_exists |-> FALSE,
             timestamp |-> 0 - 1]

\* The values time.time() is drawn from.
Timestamps == {0, 1}

\* The two os.path.exists and time.time(); the clock's value is an input.
ServeStatus ==
    /\ ServerFree
    /\ \E t \in Timestamps :
          statusResp' = [tasks_file_exists |-> tasksExists,
                         log_file_exists |-> logExists,
                         timestamp |-> t]
    /\ UNCHANGED << tasksFileVars, tasksWriterVars, tasksHandlerVars,
                    logFileVars, logWriterVars, logsHandlerVars,
                    clientLogVars, clientTaskVars, ops >>

(***************************************************************************)
(* The client's log view: fetchLogs.                                       *)
(***************************************************************************)
\* lines.slice(n)
Slice(lines, n) ==
    IF n >= Len(lines) THEN << >> ELSE SubSeq(lines, n + 1, Len(lines))

\* while (children.length > 1000) removeChild(firstChild)
Trimmed(children) == LastLines(children, DisplayCap)

\* const newLines = lines.slice(logLines.length)
NewLines(lines, shown) == Slice(lines, Len(shown))

\* fetch('/api/logs'): the request reaches the server, which starts on it.
FetchLogsRequest ==
    /\ cpc = "idle"
    /\ cpc' = "waiting"
    /\ LogsCheckStep
    /\ UNCHANGED << logLines, logsContainer >>

\* const text = await response.text(); if (text) { ... }
FetchLogsResponse ==
    /\ cpc = "waiting"
    /\ lpc = "idle"
    /\ cpc' = "idle"
    /\ IF logsResp.body # << >>
       THEN LET lines == FilterNonBlank(Split(logsResp.body))
            IN  /\ logsContainer' = Trimmed(logsContainer \o NewLines(lines, logLines))
                /\ logLines' = lines
       ELSE UNCHANGED << logLines, logsContainer >>
    /\ UNCHANGED << tasksFileVars, tasksWriterVars, tasksHandlerVars,
                    logFileVars, logWriterVars, logsHandlerVars, statusVars,
                    clientTaskVars, ops >>

(***************************************************************************)
(* Initial states and specifications.                                      *)
(***************************************************************************)
\* The server has just started: no request served, the writers at rest.
InitQuiet ==
    /\ wpc = "idle" /\ wbuf = << >>
    /\ tpc = "idle" /\ tfd = "closed" /\ tOrphan = << >>
    /\ tasksResp = NoResp /\ tPrevResp = NoResp
    /\ tClean = FALSE /\ tBoth = FALSE
    /\ lwpc = "idle"
    /\ lpc = "idle" /\ lfd = "closed" /\ lOrphan = << >>
    /\ logsResp = NoResp /\ lPrevResp = NoResp
    /\ lAtRead = << >> /\ lAtPrevRead = << >>
    /\ lClean = FALSE /\ lBoth = FALSE
    /\ statusResp = NoStatus
    /\ cpc = "idle" /\ logLines = << >> /\ logsContainer = << >>
    /\ rendered = << >> /\ stats = NoStats
    /\ ops = 0

\* Both files are optional at startup.
TasksFileAtStart ==
    \/ tasksExists = FALSE /\ tasksBytes = << >>
    \/ tasksExists = TRUE /\ tasksBytes = Dumps("A")

LogFileAtStart ==
    \/ logExists = FALSE /\ logBytes = << >> /\ nextLine = 1
    \/ /\ logExists = TRUE
       /\ logBytes = LinesText(1, InitLogLines)
       /\ nextLine = InitLogLines + 1

NoTasksFile == tasksExists = FALSE /\ tasksBytes = << >>
NoLogFile == logExists = FALSE /\ logBytes = << >> /\ nextLine = 1

\* GET /api/tasks against the pipeline rewriting tasks.json.
Init == InitQuiet /\ TasksFileAtStart /\ NoLogFile /\ tasks = << >>

Next ==
    \/ ExtBeginWrite(MaxTaskOps)
    \/ ExtWrite(MaxTaskOps)
    \/ ExtAbort(MaxTaskOps)
    \/ ExtDeleteTasks(MaxTaskOps)
    \/ ExtReplaceTasks(MaxTaskOps)
    \/ TasksCheck
    \/ TasksOpen
    \/ TasksLoad

Spec == Init /\ [][Next]_vars

\* GET /api/logs against the pipeline appending to pipeline.log.
InitLogs == InitQuiet /\ NoTasksFile /\ LogFileAtStart /\ tasks = << >>

NextLogs ==
    \/ ExtAppend(MaxLogOps)
    \/ ExtAppendPartial(MaxLogOps)
    \/ ExtFinishLine(MaxLogOps)
    \/ ExtDeleteLog(MaxLogOps)
    \/ LogsCheck
    \/ LogsOpen
    \/ LogsRead

SpecLogs == InitLogs /\ [][NextLogs]_vars

\* The browser polling /api/logs.
\* Between two polls the pipeline appends fewer lines than the window holds.
NextClient ==
    \/ (ExtAppend(MaxClientOps) /\ nextLine' - nextLine < LogWindow)
    \/ ExtAppendPartial(MaxClientOps)
    \/ ExtFinishLine(MaxClientOps)
    \/ ExtDeleteLog(MaxClientOps)
    \/ FetchLogsRequest
    \/ LogsOpen
    \/ LogsRead
    \/ FetchLogsResponse

SpecClient == InitLogs /\ [][NextClient]_vars

\* The three read operations against both files.
InitFrame ==
    /\ InitQuiet
    /\ tasksExists = TRUE /\ tasksBytes = Dumps("A")
    /\ logExists = TRUE /\ logBytes = LinesText(1, InitLogLines)
    /\ nextLine = InitLogLines + 1
    /\ tasks = << >>

NextFrame ==
    \/ ExtBeginWrite(MaxFrameOps)
    \/ ExtWrite(MaxFrameOps)
    \/ ExtAbort(MaxFrameOps)
    \/ ExtDeleteTasks(MaxFrameOps)
    \/ ExtReplaceTasks(MaxFrameOps)
    \/ ExtAppend(MaxFrameOps)
    \/ ExtAppendPartial(MaxFrameOps)
    \/ ExtFinishLine(MaxFrameOps)
    \/ ExtDeleteLog(MaxFrameOps)
    \/ TasksCheck
    \/ TasksOpen
    \/ TasksLoad
    \/ LogsCheck
    \/ LogsOpen
    \/ LogsRead
    \/ ServeStatus

SpecFrame == InitFrame /\ [][NextFrame]_vars

\* The client's task view over every task list within the bounds.
InitPure ==
    /\ InitQuiet /\ NoTasksFile /\ NoLogFile
    /\ \E k \in 0..MaxTasks : tasks \in TaskLists(k)

NextPure == FetchTasks

SpecPure == InitPure /\ [][NextPure]_vars

(***************************************************************************)
(* Helpers of the properties.                                              *)
(***************************************************************************)
Min(a, b) == IF a <= b THEN a ELSE b

\* The number of lines of a text: its newlines, and one more for a last line
\* that has none.
NumLines(text) ==
    Cardinality({i \in 1..Len(text) : text[i] = NL})
    + (IF text # << >> /\ text[Len(text)] # NL THEN 1 ELSE 0)

\* The last n tokens of a text.
Suffix(text, n) == SubSeq(text, Len(text) - n + 1, Len(text))

\* A get-tasks call has ended and the external process took no step while it
\* ran: the file the call met is the file there is now.
TasksCallMet ==
    tpc = "idle" /\ tasksResp # NoResp /\ tClean /\ wpc = "idle"

\* A get-logs call has ended by reading the file.
LogsCallRead == lpc = "idle" /\ logsResp # NoResp /\ lAtRead # << >>

C3_RecoversAfterWrite ==
    /\ (tpc = "idle" /\ tasksResp # NoResp) => tasksResp.code \in {200, 500}
    /\ (TasksCallMet /\ tasksExists /\ \E d \in Docs : tasksBytes = Dumps(d))
          => tasksResp = Ok(tasksBytes)

C3_Witness ==
    /\ TasksCallMet /\ tasksExists
    /\ tPrevResp = Err500(<< ParseError >>)
    /\ tasksBytes = Dumps("B")
    /\ tasksResp = Ok(Dumps("B"))

(***************************************************************************)
(* C4: absence is never an error: a step of get-tasks that finds the task  *)
(* file absent (at the existence check or at the open) ends the call with  *)
(* 200 and the empty document, and a step of get-logs that finds the log   *)
(* file absent ends the call with 200 and the placeholder text.            *)
(***************************************************************************)
C4_AbsenceIsNeverAnError ==
    [][ /\ (tpc \in {"idle", "open"} /\ tpc' = "idle" /\ ~tasksExists
              /\ tasksResp' # tasksResp)
           => tasksResp' = Ok(Dumps(EmptyDoc))
        /\ (lpc \in {"idle", "open"} /\ lpc' = "idle" /\ ~logExists
              /\ logsResp' # logsResp)
           => logsResp' = Ok(<< NoLogsText, NL >>) ]_vars

(***************************************************************************)
(* C9: no step of the three read operations changes the existence or the   *)
(* content of the task file or of the log file, and two get-tasks calls    *)
(* with no step of the external process on the task file since the first   *)
(* began return identical responses.                                       *)
(***************************************************************************)
C9_ReadsLeaveFilesUnchanged ==
    /\ [][ (\/ tpc' # tpc \/ tasksResp' # tasksResp \/ tPrevResp' # tPrevResp
            \/ lpc' # lpc \/ logsResp' # logsResp \/ lPrevResp' # lPrevResp
            \/ statusResp' # statusResp)
           => UNCHANGED << tasksExists, tasksBytes, logExists, logBytes >> ]_vars
    /\ []((tpc = "idle" /\ tasksResp # NoResp /\ tBoth) => tasksResp = tPrevResp)

C9_Witness ==
    /\ tpc = "idle" /\ tBoth
    /\ tasksResp = Ok(Dumps("A")) /\ tPrevResp = tasksResp
    /\ lpc = "idle" /\ logsResp.code = 200
    /\ statusResp # NoStatus
    /\ ops > 0

(***************************************************************************)
(* C2: a get-logs call that reads a log of L lines returns exactly its     *)
(* last min(L, 100) lines in file order: the response is the part of the   *)
(* file's text that starts at a line boundary and holds min(L, 100)        *)
(* lines, so no line is reordered, duplicated or skipped.  With L = 250    *)
(* these are lines 151 to 250.                                             *)
(***************************************************************************)
C2_TailIsLastLines ==
    LogsCallRead =>
        LET text == lAtRead[1]
            body == logsResp.body
            cut == Len(text) - Len(body)
        IN  /\ logsResp.code = 200
            /\ cut >= 0
            /\ body = Suffix(text, Len(body))
            /\ (cut = 0 \/ text[cut] = NL)
            /\ NumLines(body) = Min(NumLines(text), LogWindow)

C2_Witness ==
    /\ LogsCallRead
    /\ NumLines(lAtRead[1]) = 250
    /\ lAtRead[1] = LinesText(1, 250)
    /\ logsResp = Ok(LinesText(151, 100))

(***************************************************************************)
(* C5: when the pipeline appends k whole lines (1 <= k <= 100) between     *)
(* the reads of two consecutive get-logs calls, the second window has at   *)
(* most 100 lines, its last k lines are the appended lines in append       *)
(* order, and the lines before them are the tail of the first window.      *)
(***************************************************************************)
C5_GrowthShowsAppendedLines ==
    (LogsCallRead /\ lBoth /\ lAtPrevRead # << >> /\ lPrevResp.code = 200) =>
        LET old == lAtPrevRead[1]
            new == lAtRead[1]
            k == NumLines(new) - NumLines(old)
            appended == SubSeq(new, Len(old) + 1, Len(new))
            first == lPrevResp.body
            second == logsResp.body
            kept == Len(second) - Len(appended)
        IN  (k >= 1 /\ k <= LogWindow) =>
               /\ NumLines(appended) = k
               /\ NumLines(second) <= LogWindow
               /\ kept >= 0
               /\ Suffix(second, Len(appended)) = appended
               /\ kept <= Len(first)
               /\ SubSeq(second, 1, kept) = Suffix(first, kept)

C5_Witness ==
    /\ LogsCallRead /\ lBoth /\ lAtPrevRead # << >> /\ lPrevResp.code = 200
    /\ NumLines(lAtPrevRead[1]) = InitLogLines
    /\ NumLines(lAtRead[1]) = InitLogLines + 5
    /\ NumLines(logsResp.body) = LogWindow
    /\ Suffix(logsResp.body, 10) = LinesText(InitLogLines + 1, 5)

(***************************************************************************)
(* C8: a get-logs call that reads the log while the last line's text is    *)
(* written and its newline is not succeeds, and every line of the window   *)
(* it returns is a complete, newline-terminated line: the partly written   *)
(* last line is not returned.                                              *)
(***************************************************************************)
C8_WindowHoldsOnlyCompleteLines ==
    (LogsCallRead /\ lAtRead[1] # << >> /\ lAtRead[1][Len(lAtRead[1])] # NL)
        => /\ logsResp.code = 200
           /\ (logsResp.body = << >> \/ logsResp.body[Len(logsResp.body)] = NL)

(***************************************************************************)
(* C10: after every poll of fetchLogs, each log line of the fetched        *)
(* window stands in the display exactly once (the placeholder and the      *)
(* error page are no log lines), and the displayed log lines are in file   *)
(* order.                                                                  *)
(***************************************************************************)
IsLogLine(line) == line # << NoLogsText >> /\ line # << ErrorPage >>

C10_EachFetchedLineDisplayedOnce ==
    cpc = "idle" =>
        /\ \A i \in 1..Len(logLines) :
              IsLogLine(logLines[i]) =>
                  Cardinality({j \in 1..Len(logsContainer) :
                                  logsContainer[j] = logLines[i]}) = 1
        /\ \A i, j \in 1..Len(logsContainer) :
              (i < j /\ IsLogLine(logsContainer[i]) /\ IsLogLine(logsContainer[j]))
                  => logsContainer[i][1] < logsContainer[j][1]

(***************************************************************************)
(* C6: the status rendered for a task is its own status (pending when      *)
(* absent) if its subtask list is absent or empty; otherwise complete if   *)
(* every subtask is complete; otherwise in-progress if some subtask is     *)
(* in-progress; otherwise pending.  So a task with no subtasks and own     *)
(* status pending never shows complete, and a task with subtasks shows     *)
(* complete iff every subtask is complete.                                 *)
(***************************************************************************)
C6_EffectiveStatus ==
    stats # NoStats =>
        /\ Len(rendered) = Len(tasks)
        /\ \A i \in 1..Len(tasks) :
              LET t == tasks[i]
                  sts == t.subtasks.list
                  n == IF t.subtasks.has THEN Len(sts) ELSE 0
                  every == \A j \in 1..n : sts[j].status = "complete"
                  some == \E j \in 1..n : sts[j].status = "in-progress"
                  r == rendered[i]
              IN  /\ (n = 0 /\ t.status = Undefined) => r = "pending"
                  /\ (n = 0 /\ t.status # Undefined) => r = t.status
                  /\ (n = 0 /\ t.status = "pending") => r # "complete"
                  /\ n > 0 => (r = "complete" <=> every)
                  /\ (n > 0 /\ ~every) => (r = "in-progress" <=> some)
                  /\ (n > 0 /\ ~every /\ ~some) => r = "pending"

C6_Witness ==
    /\ stats # NoStats
    /\ Len(tasks) = 1
    /\ tasks[1].subtasks = Subtasks(<< >>)
    /\ tasks[1].status = "pending"
    /\ rendered = << "pending" >>

====
